---- MODULE Spec2Model ----
(***************************************************************************)
(* A model of the OpenHands SDK shim: the configuration resolver           *)
(* (sdk/config.py), the client facade and its synchronous wrapper          *)
(* (sdk/openhands_client.py) and the code extraction heuristic.            *)
(*                                                                         *)
(* Python strings that the code only compares are TLA+ strings; strings    *)
(* the code searches or splits are sequences of one-character strings.     *)
(* None is the string None, which no input of the model equals.            *)
(***************************************************************************)
EXTENDS Integers, Sequences, FiniteSets, TLC

VARIABLES
    env,          \* the process environment read by config.py at import
    llm_config,   \* the module-level dict LLM_CONFIG
    cfgCall,      \* the last get_llm_config call: argument and outcome
    mode,         \* how the client is driven: "async" (OpenHandsClient) or "sync" (OpenHandsSync)
    loops,        \* event loops created by the synchronous wrapper
    runtime,      \* self.runtime: None or the handle create_runtime returned
    nHandles,     \* runtime handles created so far (handles are 1..nHandles)
    closes,       \* closes[h]: how often close() was invoked on handle h
    inflight,     \* facade calls suspended at "await self.runtime.run_action(action)"
    done,         \* the call that finished last (returned or raised)
    ncalls,       \* facade calls begun so far
    nsubmitted,   \* actions handed to runtime.run_action so far
    fs,           \* the runtime's files: location -> content
    hostDirs,     \* directories that exist on the host file system
    writeLog,     \* the file writes the runtime performed, oldest first
    history,      \* state.history handed to _extract_code_from_state
    extracted,    \* the outcome of _extract_code_from_state on history
    scope,        \* a "with create_client(...) as client:" statement: position and exception
    task,         \* a code_task call: arguments, position, what ask was given, result
    cliPc,        \* deepseek_cli interactive_mode: position of the loop
    chatHistory,  \* interactive_mode's list "history"
    printed,      \* the last message the CLI printed to the console
    requests,     \* ollama.chat requests sent so far
    cliCall,      \* the CLI function an interactive command called last
    turn,         \* what the last pass through the loop met
    args,         \* main: the parsed command line
    ran           \* main: the calls it made, in order

vars == <<env, llm_config, cfgCall, mode, loops, runtime, nHandles, closes,
          inflight, done, ncalls, nsubmitted, fs, hostDirs, writeLog,
          history, extracted, scope, task,
          cliPc, chatHistory, printed, requests, cliCall, turn, args, ran>>

configVars == <<env, llm_config, cfgCall>>
clientVars == <<mode, loops, runtime, nHandles, closes, inflight, done,
                ncalls, nsubmitted, fs, hostDirs, writeLog>>
extractVars == <<history, extracted>>
scopeVars == <<scope>>
taskVars == <<task>>
cliVars == <<cliPc, chatHistory, printed, requests, cliCall, turn>>
mainVars == <<args, ran>>

None == "None"
Unset == "<unset>"

\* No with statement, no code_task call, no CLI process.
ScopeIdle == scope = [pc |-> "none", exc |-> None]
TaskIdle == task = [pc |-> "none"]
CliIdle ==
    /\ cliPc = "none"
    /\ chatHistory = <<>>
    /\ printed = None
    /\ requests = 0
    /\ cliCall = [fn |-> "none"]
    /\ turn = [event |-> "none"]
MainIdle ==
    /\ args = [given |-> FALSE]
    /\ ran = <<>>

(***************************************************************************)
(* sdk/config.py                                                           *)
(***************************************************************************)

\* os.getenv(name, default)
getenv(e, name, default) == IF e[name] = Unset THEN default ELSE e[name]

EnvNames == {"LLM_PROVIDER", "DEEPSEEK_API_KEY", "OPENAI_API_KEY", "ANTHROPIC_API_KEY"}

\* The keys of LLM_CONFIG in insertion order, as list(LLM_CONFIG.keys()) gives them.
ProviderKeys == <<"deepseek_local", "deepseek_api", "openai", "anthropic">>

Range(s) == {s[i] : i \in DOMAIN s}

\* The dict literal of config.py, evaluated at import under environment e.
LLM_CONFIG(e) ==
    [k \in Range(ProviderKeys) |->
        CASE k = "deepseek_local" ->
                [model |-> "ollama/deepseek-coder-v2:16b",
                 api_key |-> "ollama",
                 base_url |-> "http://localhost:11434"]
          [] k = "deepseek_api" ->
                [model |-> "deepseek-chat",
                 api_key |-> getenv(e, "DEEPSEEK_API_KEY", ""),
                 base_url |-> "https://api.deepseek.com/v1"]
          [] k = "openai" ->
                [model |-> "gpt-4o",
                 api_key |-> getenv(e, "OPENAI_API_KEY", ""),
                 base_url |-> "https://api.openai.com/v1"]
          [] k = "anthropic" ->
                [model |-> "claude-sonnet-4-20250514",
                 api_key |-> getenv(e, "ANTHROPIC_API_KEY", ""),
                 base_url |-> "https://api.anthropic.com"]]

DEFAULT_PROVIDER(e) == getenv(e, "LLM_PROVIDER", "deepseek_local")

\* Python truthiness of an Optional[str]
Falsy(s) == s = None \/ s = ""

NoCall == [provider |-> None, outcome |-> "none"]

\* get_llm_config with a fault: the lookup ignores the key and answers with the
\* first profile of the mapping.
get_llm_config_first(cfg, e, provider) ==
    LET p == IF Falsy(provider) THEN DEFAULT_PROVIDER(e) ELSE provider
    IN  IF p \notin DOMAIN cfg
        THEN [provider |-> provider, outcome |-> "raise", exc |-> "ValueError",
              unknown |-> p, available |-> ProviderKeys]
        ELSE [provider |-> provider, outcome |-> "return", value |-> cfg[ProviderKeys[1]]]

\* get_llm_config(provider): the outcome of one call on mapping cfg.
get_llm_config(cfg, e, provider) ==
    LET p == IF Falsy(provider) THEN DEFAULT_PROVIDER(e) ELSE provider
    IN  IF p \notin DOMAIN cfg
        THEN [provider |-> provider, outcome |-> "raise", exc |-> "ValueError",
              unknown |-> p, available |-> ProviderKeys]
        ELSE [provider |-> provider, outcome |-> "return", value |-> cfg[p]]

\* Values the environment may hold.
ApiKeyValues == {Unset, "", "sk-1"}
ProviderEnvValues == {Unset, "", "openai", "anthropic", "gpt4"}
\* Arguments get_llm_config is called with.
ProviderArgs == Range(ProviderKeys) \cup {None, "", "gpt4", "OpenAI"}

\* One call of get_llm_config; it reads the mapping and leaves it alone.
GetLlmConfig ==
    /\ \E p \in ProviderArgs : cfgCall' = get_llm_config(llm_config, env, p)
    /\ UNCHANGED <<env, llm_config>>
    /\ UNCHANGED <<clientVars, extractVars, scopeVars, taskVars, cliVars, mainVars>>

(***************************************************************************)
(* sdk/openhands_client.py: paths                                          *)
(*                                                                         *)
(* A path is the sequence of its components; an absolute path starts with  *)
(* the component "/".                                                      *)
(***************************************************************************)

\* self.workspace_dir: Path(workspace_dir or WORKSPACE_DIR).resolve(), absolute.
workspace_dir == <<"/", "ws">>

IsAbsolute(p) == p # <<>> /\ p[1] = "/"

\* pathlib's "/" operator: an absolute right operand replaces the left one, a
\* relative one is appended with its "." components dropped; ".." is kept.
PathJoin(base, p) ==
    IF IsAbsolute(p) THEN p ELSE base \o SelectSeq(p, LAMBDA c : c # ".")

\* Path.parent: the path without its last component (of the root, the root).
Parent(p) == IF Len(p) <= 1 THEN p ELSE SubSeq(p, 1, Len(p) - 1)

\* The location a file system resolves an absolute path to: ".." steps up
\* (never above the root), "." stays.
RECURSIVE ResolvePath(_)
ResolvePath(p) ==
    IF p = <<>> THEN <<>>
    ELSE LET r == ResolvePath(SubSeq(p, 1, Len(p) - 1))
             c == p[Len(p)]
         IN  CASE c = ".." -> IF Len(r) > 1 THEN SubSeq(r, 1, Len(r) - 1) ELSE r
               [] c = "."  -> r
               [] OTHER    -> Append(r, c)

IsPrefix(a, b) == Len(a) <= Len(b) /\ SubSeq(b, 1, Len(a)) = a

\* Path.mkdir(parents=True, exist_ok=True) on the host: the directory and every
\* ancestor of it exist afterwards.
Mkdir(dirs, d) == dirs \cup {ResolvePath(SubSeq(d, 1, k)) : k \in 1..Len(d)}

\* read_file's full_path with a fault: the workspace root is left out.
read_full_path_bare(filepath) == IF IsAbsolute(filepath) THEN filepath ELSE <<"/">> \o filepath

\* full_path = self.workspace_dir / filepath (read_file)
read_full_path(filepath) == PathJoin(workspace_dir, filepath)

\* full_path = self.workspace_dir / filepath (write_file)
write_full_path(filepath) == PathJoin(workspace_dir, filepath)

(***************************************************************************)
(* The actions the facade constructs and the observations it matches.      *)
(***************************************************************************)

CmdRunAction(id, command) ==
    [id |-> id, type |-> "CmdRunAction", command |-> command, path |-> <<>>,
     content |-> None, url |-> None]
FileReadAction(id, path) ==
    [id |-> id, type |-> "FileReadAction", command |-> None, path |-> path,
     content |-> None, url |-> None]
FileWriteAction(id, path, content) ==
    [id |-> id, type |-> "FileWriteAction", command |-> None, path |-> path,
     content |-> content, url |-> None]
BrowseURLAction(id, url) ==
    [id |-> id, type |-> "BrowseURLAction", command |-> None, path |-> <<>>,
     content |-> None, url |-> url]

NoObs == [variant |-> "none", content |-> None, url |-> None,
          screenshot |-> None, cause |-> 0]

\* str(observation): the string form of an observation, which is not its content.
StrOf(obs) ==
    CASE obs.variant = "ErrorObservation"         -> "**ErrorObservation**"
      [] obs.variant = "CmdOutputObservation"     -> "**CmdOutputObservation**"
      [] obs.variant = "FileReadObservation"      -> "**FileReadObservation**"
      [] obs.variant = "FileWriteObservation"     -> "**FileWriteObservation**"
      [] obs.variant = "BrowserOutputObservation" -> "**BrowserOutputObservation**"
      [] OTHER                                    -> "**Observation**"

NoHandle == 0

(***************************************************************************)
(* The external runtime (openhands), as the facade sees it: run_action      *)
(* takes one action and gives one observation or raises.  Which of the     *)
(* three happens is the runtime's choice.                                  *)
(***************************************************************************)

RuntimeOutcomes == {"ok", "error", "raise"}

ErrorObservation(action) ==
    [variant |-> "ErrorObservation", content |-> "err", url |-> None,
     screenshot |-> None, cause |-> action.id]

\* The url of the page the browser ended on, which need not be the url asked for.
LandedUrl(url) == "http://u/landed"

\* The observation run_action gives for action on files, when it does not raise.
run_action(action, outcome, files) ==
    CASE outcome = "error" -> ErrorObservation(action)
      [] outcome = "ok" /\ action.type = "CmdRunAction" ->
            [variant |-> "CmdOutputObservation", content |-> "out", url |-> None,
             screenshot |-> None, cause |-> action.id]
      [] outcome = "ok" /\ action.type = "FileReadAction" ->
            IF ResolvePath(action.path) \in DOMAIN files
            THEN [variant |-> "FileReadObservation",
                  content |-> files[ResolvePath(action.path)], url |-> None,
                  screenshot |-> None, cause |-> action.id]
            ELSE ErrorObservation(action)
      [] outcome = "ok" /\ action.type = "FileWriteAction" ->
            [variant |-> "FileWriteObservation", content |-> None, url |-> None,
             screenshot |-> None, cause |-> action.id]
      [] outcome = "ok" /\ action.type = "BrowseURLAction" ->
            [variant |-> "BrowserOutputObservation", content |-> "page",
             url |-> LandedUrl(action.url), screenshot |-> "png", cause |-> action.id]

\* The runtime's files after it handled action.
FilesAfter(action, outcome, files) ==
    IF outcome = "ok" /\ action.type = "FileWriteAction"
    THEN (ResolvePath(action.path) :> action.content) @@ files
    ELSE files

(***************************************************************************)
(* OpenHandsClient: the facade operations.  Each runs to its await in one   *)
(* step (Begin) and finishes in a second one when the runtime answers.     *)
(***************************************************************************)

\* The call as it stands after "observation = await self.runtime.run_action(action)"
\* was reached: with no runtime the attribute access on None raises.
BeginRecord(rt, cl, id, op, arg, action) ==
    IF rt = NoHandle
    THEN [id |-> id, op |-> op, arg |-> arg, handle |-> NoHandle, action |-> action,
          nsub |-> 0, status |-> "raised", exc |-> "AttributeError",
          obs |-> NoObs, result |-> None, toClosed |-> FALSE]
    ELSE [id |-> id, op |-> op, arg |-> arg, handle |-> rt, action |-> action,
          nsub |-> 1, status |-> "inflight", exc |-> None,
          obs |-> NoObs, result |-> None, toClosed |-> cl[rt] > 0]

\* run_command with a fault: with no runtime it returns empty output.
run_command_begin_silent(rt, cl, id, command) ==
    IF rt = NoHandle
    THEN [BeginRecord(rt, cl, id, "run_command", command, CmdRunAction(id, command))
            EXCEPT !.status = "returned", !.exc = None, !.result = ""]
    ELSE BeginRecord(rt, cl, id, "run_command", command, CmdRunAction(id, command))

run_command_begin(rt, cl, id, command) ==
    BeginRecord(rt, cl, id, "run_command", command, CmdRunAction(id, command))

read_file_begin(rt, cl, id, filepath) ==
    BeginRecord(rt, cl, id, "read_file", filepath,
                FileReadAction(id, read_full_path(filepath)))

write_file_begin(rt, cl, id, filepath, content) ==
    BeginRecord(rt, cl, id, "write_file", filepath,
                FileWriteAction(id, write_full_path(filepath), content))

browse_url_begin(rt, cl, id, url) ==
    BeginRecord(rt, cl, id, "browse_url", <<url>>, BrowseURLAction(id, url))

\* What each operation returns for the observation it awaited.
run_command_result(obs) ==
    IF obs.variant = "CmdOutputObservation" THEN obs.content ELSE StrOf(obs)
read_file_result(obs) ==
    IF obs.variant = "FileReadObservation" THEN obs.content ELSE StrOf(obs)
\* write_file with a fault: success is reported for every observation.
write_file_result_always(obs) == TRUE

write_file_result(obs) == obs.variant = "FileWriteObservation"

\* browse_url with a fault: without a browser observation the observation's
\* content is returned in place of its string form.
browse_url_result_content(obs) ==
    IF obs.variant = "BrowserOutputObservation"
    THEN [url |-> obs.url, content |-> obs.content, screenshot |-> obs.screenshot]
    ELSE [content |-> obs.content]

browse_url_result(obs) ==
    IF obs.variant = "BrowserOutputObservation"
    THEN [url |-> obs.url, content |-> obs.content, screenshot |-> obs.screenshot]
    ELSE [content |-> StrOf(obs)]

Unwrap(op, obs) ==
    CASE op = "run_command" -> run_command_result(obs)
      [] op = "read_file"   -> read_file_result(obs)
      [] op = "write_file"  -> write_file_result(obs)
      [] op = "browse_url"  -> browse_url_result(obs)

\* A call with a fault: it catches the runtime's exception and submits its action
\* once more.
on_runtime_raise_retry(c) ==
    IF c.nsub < 2
    THEN [c EXCEPT !.nsub = @ + 1]
    ELSE [c EXCEPT !.status = "raised", !.exc = "RuntimeError"]

\* The call after run_action raised: no except clause, the exception leaves the call.
on_runtime_raise(c) == [c EXCEPT !.status = "raised", !.exc = "RuntimeError"]

\* The call after run_action gave obs.
on_observation(c, obs) ==
    [c EXCEPT !.status = "returned", !.obs = obs, !.result = Unwrap(c.op, obs)]

(***************************************************************************)
(* Bounds and inputs of the client model                                   *)
(***************************************************************************)

MaxCalls == 2      \* facade calls per run, any operation, concurrent or not
MaxFileCalls == 3  \* file calls per run of the file scenario
MaxHandles == 2    \* successful starts per run
MaxCloses == 2     \* close() invocations per handle

\* filepath arguments: a plain name, the same file spelt "./a", a path that
\* steps out of the workspace, an absolute path.
PathArgs == {<<"a">>, <<".", "a">>, <<"..", "a">>, <<"/", "a">>}
Contents == {"x", "y"}
Commands == {"ls"}
Urls == {"http://u"}

(***************************************************************************)
(* start / stop                                                            *)
(***************************************************************************)

\* self.runtime after start: the handle create_runtime returned; when
\* create_runtime raises the assignment does not happen.
start(rt, n, created) == IF created THEN n + 1 ELSE rt

\* stop with a fault: close() is called without the "if self.runtime" guard.
stop_unguarded(rt, cl) ==
    IF rt # NoHandle
    THEN [closes |-> [cl EXCEPT ![rt] = @ + 1], status |-> "returned", exc |-> None]
    ELSE [closes |-> cl, status |-> "raised", exc |-> "AttributeError"]

\* stop: close the runtime if there is one; self.runtime keeps its value.
stop(rt, cl) ==
    IF rt # NoHandle
    THEN [closes |-> [cl EXCEPT ![rt] = @ + 1], status |-> "returned", exc |-> None]
    ELSE [closes |-> cl, status |-> "returned", exc |-> None]

(***************************************************************************)
(* OpenHandsSync                                                           *)
(***************************************************************************)

\* _run with a fault: the coroutine is scheduled and _run returns at once.
Sync_run_detached(md, infl) == TRUE

\* _run is loop.run_until_complete(coro): the calling thread gets control back,
\* and can make its next call, only when the coroutine has finished.
Sync_run(md, infl) == md = "sync" => infl = {}

\* _run uses self._loop, the loop made in __init__; it makes none.
Sync_run_loops(md, n) == n

NoDone == [op |-> "none", status |-> "none"]

LifecycleDone(op, rt, status, exc) ==
    [op |-> op, handle |-> rt, status |-> status, exc |-> exc]

\* start and stop on the client, whoever calls them.
StartStep ==
    /\ Sync_run(mode, inflight)
    /\ nHandles < MaxHandles
    /\ \/ /\ runtime' = start(runtime, nHandles, TRUE)
          /\ nHandles' = nHandles + 1
          /\ done' = LifecycleDone("start", runtime, "returned", None)
       \/ /\ runtime' = start(runtime, nHandles, FALSE)
          /\ nHandles' = nHandles
          /\ done' = LifecycleDone("start", runtime, "raised", "RuntimeError")
    /\ loops' = Sync_run_loops(mode, loops)
    /\ UNCHANGED <<mode, closes, inflight, ncalls, nsubmitted, fs, hostDirs, writeLog>>
    /\ UNCHANGED <<configVars, extractVars, taskVars, cliVars, mainVars>>

StopStep ==
    /\ Sync_run(mode, inflight)
    /\ runtime # NoHandle => closes[runtime] < MaxCloses
    /\ LET r == stop(runtime, closes)
       IN  /\ closes' = r.closes
           /\ done' = LifecycleDone("stop", runtime, r.status, r.exc)
    /\ loops' = Sync_run_loops(mode, loops)
    /\ UNCHANGED <<mode, runtime, nHandles, inflight, ncalls, nsubmitted, fs, hostDirs, writeLog>>
    /\ UNCHANGED <<configVars, extractVars, taskVars, cliVars, mainVars>>

\* The caller calls client.start() / client.stop() itself.
Start == StartStep /\ UNCHANGED scopeVars
Stop == StopStep /\ UNCHANGED scopeVars

\* A facade call runs to its await: it is in flight, or it has raised already.
Begin(rec) ==
    /\ ncalls' = ncalls + 1
    /\ IF rec.status = "inflight"
       THEN /\ inflight' = inflight \cup {rec}
            /\ nsubmitted' = nsubmitted + 1
            /\ done' = done
       ELSE /\ done' = rec
            /\ UNCHANGED <<inflight, nsubmitted>>
    /\ loops' = Sync_run_loops(mode, loops)
    /\ UNCHANGED <<mode, runtime, nHandles, closes, fs, writeLog>>
    /\ UNCHANGED <<configVars, extractVars, scopeVars, taskVars, cliVars, mainVars>>

RunCommand ==
    /\ Sync_run(mode, inflight)
    /\ ncalls < MaxCalls
    /\ \E command \in Commands :
          Begin(run_command_begin(runtime, closes, ncalls + 1, command))
    /\ UNCHANGED hostDirs

\* read_file with a filepath of paths, in a run of at most maxCalls calls.
ReadFileOf(paths, maxCalls) ==
    /\ Sync_run(mode, inflight)
    /\ ncalls < maxCalls
    /\ \E filepath \in paths :
          Begin(read_file_begin(runtime, closes, ncalls + 1, filepath))
    /\ UNCHANGED hostDirs

\* write_file: the parent directories are made on the host, then the action is submitted.
WriteFileOf(paths, contents, maxCalls) ==
    /\ Sync_run(mode, inflight)
    /\ ncalls < maxCalls
    /\ \E filepath \in paths, content \in contents :
          /\ hostDirs' = Mkdir(hostDirs, Parent(write_full_path(filepath)))
          /\ Begin(write_file_begin(runtime, closes, ncalls + 1, filepath, content))

ReadFile == ReadFileOf(PathArgs, MaxFileCalls)
WriteFile == WriteFileOf(PathArgs, Contents, MaxFileCalls)

\* The same operations with one path and one content, among the other calls.
ReadFileA == ReadFileOf({<<"a">>}, MaxCalls)
WriteFileA == WriteFileOf({<<"a">>}, {"x"}, MaxCalls)

BrowseUrl ==
    /\ Sync_run(mode, inflight)
    /\ ncalls < MaxCalls
    /\ \E url \in Urls :
          Begin(browse_url_begin(runtime, closes, ncalls + 1, url))
    /\ UNCHANGED hostDirs

\* The runtime answers the action of call c with an observation; c returns.
RuntimeAnswers ==
    \E c \in inflight, outcome \in RuntimeOutcomes \ {"raise"} :
        LET obs == run_action(c.action, outcome, fs)
        IN  /\ done' = on_observation(c, obs)
            /\ inflight' = inflight \ {c}
            /\ fs' = FilesAfter(c.action, outcome, fs)
            /\ writeLog' = IF outcome = "ok" /\ c.action.type = "FileWriteAction"
                           THEN Append(writeLog, [path |-> c.arg, content |-> c.action.content])
                           ELSE writeLog
            /\ UNCHANGED <<mode, loops, runtime, nHandles, closes, ncalls, nsubmitted, hostDirs>>
            /\ UNCHANGED <<configVars, extractVars, scopeVars, taskVars, cliVars, mainVars>>

\* run_action raises for the action of call c.
RuntimeRaises ==
    \E c \in inflight :
        LET r == on_runtime_raise(c)
        IN  /\ IF r.status = "inflight"
               THEN /\ inflight' = (inflight \ {c}) \cup {r}
                    /\ nsubmitted' = nsubmitted + 1
                    /\ done' = done
               ELSE /\ inflight' = inflight \ {c}
                    /\ nsubmitted' = nsubmitted
                    /\ done' = r
            /\ UNCHANGED <<mode, loops, runtime, nHandles, closes, ncalls, fs, hostDirs, writeLog>>
            /\ UNCHANGED <<configVars, extractVars, scopeVars, taskVars, cliVars, mainVars>>

ConfigIdle ==
    /\ env = [n \in EnvNames |-> Unset]
    /\ llm_config = LLM_CONFIG(env)
    /\ cfgCall = NoCall

ClientInit ==
    /\ mode \in {"async", "sync"}
    /\ loops = IF mode = "sync" THEN 1 ELSE 0
    /\ runtime = NoHandle
    /\ nHandles = 0
    /\ closes = [h \in 1..MaxHandles |-> 0]
    /\ inflight = {}
    /\ done = NoDone
    /\ ncalls = 0
    /\ nsubmitted = 0
    /\ fs = <<>>
    /\ hostDirs = Mkdir({}, workspace_dir)
    /\ writeLog = <<>>

ExtractIdle ==
    /\ history = <<>>
    /\ extracted = [outcome |-> "none"]

OutsideIdle == ScopeIdle /\ TaskIdle /\ CliIdle /\ MainIdle

Init == ConfigIdle /\ ClientInit /\ ExtractIdle /\ OutsideIdle

Next ==
    \/ Start
    \/ Stop
    \/ RunCommand
    \/ ReadFileA
    \/ WriteFileA
    \/ BrowseUrl
    \/ RuntimeAnswers
    \/ RuntimeRaises

Spec == Init /\ [][Next]_vars

(***************************************************************************)
(* The resolver on its own: any environment, any argument.                 *)
(***************************************************************************)

ConfigInit ==
    /\ env \in [EnvNames -> ApiKeyValues \cup ProviderEnvValues]
    /\ env["LLM_PROVIDER"] \in ProviderEnvValues
    /\ \A n \in EnvNames \ {"LLM_PROVIDER"} : env[n] \in ApiKeyValues
    /\ llm_config = LLM_CONFIG(env)
    /\ cfgCall = NoCall

ClientIdle ==
    /\ mode = "async"
    /\ loops = 0
    /\ runtime = NoHandle
    /\ nHandles = 0
    /\ closes = [h \in 1..MaxHandles |-> 0]
    /\ inflight = {}
    /\ done = NoDone
    /\ ncalls = 0
    /\ nsubmitted = 0
    /\ fs = <<>>
    /\ hostDirs = Mkdir({}, workspace_dir)
    /\ writeLog = <<>>

InitConfig == ConfigInit /\ ClientIdle /\ ExtractIdle /\ OutsideIdle

NextConfig == GetLlmConfig

SpecConfig == InitConfig /\ [][NextConfig]_vars

(***************************************************************************)
(* The file scenario of examples/01_basic_usage.py: a synchronous client   *)
(* is started and files are written and read back, with every path.        *)
(***************************************************************************)

InitFiles ==
    /\ ConfigIdle
    /\ ClientInit
    /\ mode = "sync"
    /\ ExtractIdle
    /\ OutsideIdle

NextFiles ==
    \/ Start
    \/ ReadFile
    \/ WriteFile
    \/ RuntimeAnswers
    \/ RuntimeRaises

SpecFiles == InitFiles /\ [][NextFiles]_vars

(***************************************************************************)
(* OpenHandsClient._extract_code_from_state                                *)
(*                                                                         *)
(* A text is the sequence of its characters; positions are Python's,       *)
(* counted from 0, and -1 is "not found".                                  *)
(***************************************************************************)

\* The backquote character, written BQ; the fence delimiter is three of them.
BQ == "BQ"
FenceLen == 3
Fence == [i \in 1..FenceLen |-> BQ]
NL == "\n"

\* The positions at which s holds the fence delimiter.
FencePositions(s) ==
    {i \in 0..(Len(s) - FenceLen) : SubSeq(s, i + 1, i + FenceLen) = Fence}

SetMin(S) == CHOOSE x \in S : \A y \in S : x <= y
SetMax(S) == CHOOSE x \in S : \A y \in S : x >= y

\* str.find and str.rfind of the fence delimiter
find(s) == IF FencePositions(s) = {} THEN -1 ELSE SetMin(FencePositions(s))
rfind(s) == IF FencePositions(s) = {} THEN -1 ELSE SetMax(FencePositions(s))

\* s[a:b] for 0 <= a, b
Slice(s, a, b) == SubSeq(s, a + 1, IF b < Len(s) THEN b ELSE Len(s))

\* str.split('\n'): the lines of s, at least one.
RECURSIVE split(_)
split(s) ==
    LET nls == {i \in 1..Len(s) : s[i] = NL}
    IN  IF nls = {} THEN <<s>>
        ELSE LET i == SetMin(nls)
             IN  <<SubSeq(s, 1, i - 1)>> \o split(SubSeq(s, i + 1, Len(s)))

\* '\n'.join(lines)
RECURSIVE join(_)
join(lines) ==
    IF lines = <<>> THEN <<>>
    ELSE IF Len(lines) = 1 THEN lines[1]
    ELSE lines[1] \o <<NL>> \o join(Tail(lines))

startswith(line, prefix) ==
    Len(line) >= Len(prefix) /\ SubSeq(line, 1, Len(prefix)) = prefix

\* The body of the loop for an event whose content holds two fence positions:
\* cut from the first fence to the end of the last, drop the first line, drop
\* a last line that is the fence.  lines[-1] of an empty list raises.
strip_fence(content) ==
    LET code == Slice(content, find(content), rfind(content) + FenceLen)
        lines == split(code)
        lines1 == IF startswith(lines[1], Fence) THEN Tail(lines) ELSE lines
    IN  IF lines1 = <<>>
        THEN [outcome |-> "raise", exc |-> "IndexError"]
        ELSE LET lines2 == IF lines1[Len(lines1)] = Fence
                           THEN SubSeq(lines1, 1, Len(lines1) - 1)
                           ELSE lines1
             IN  [outcome |-> "return", value |-> join(lines2)]

\* The scan "for event in reversed(state.history)" from event k down to the first.
RECURSIVE extract_from(_, _)
extract_from(hist, k) ==
    IF k = 0 THEN [outcome |-> "return", value |-> <<>>]
    ELSE LET event == hist[k]
         IN  IF event.hasContent /\ FencePositions(event.content) # {}
                /\ find(event.content) # rfind(event.content)
             THEN strip_fence(event.content)
             ELSE extract_from(hist, k - 1)

extract_code_from_state(hist) == extract_from(hist, Len(hist))

(***************************************************************************)
(* Histories the extraction is run on                                      *)
(***************************************************************************)

MaxHistory == 2   \* events in a history
MaxBody == 1      \* characters in the body of a fenced block

Python == <<"p", "y", "t", "h", "o", "n">>

\* pre, then the block: fence, "python", NL, body, NL, fence; then post
Block(pre, body, post) ==
    pre \o Fence \o Python \o <<NL>> \o body \o <<NL>> \o Fence \o post

RECURSIVE TextsUpTo(_, _)
TextsUpTo(alphabet, n) ==
    IF n = 0 THEN {<<>>}
    ELSE LET shorter == TextsUpTo(alphabet, n - 1)
         IN  shorter \cup {Append(t, ch) : t \in shorter, ch \in alphabet}

Bodies == TextsUpTo({"x", NL, BQ}, MaxBody)
Pres == {<<>>, <<"x", NL>>}
Posts == {<<>>, <<NL, "x">>}

\* Texts without a block: plain, one fence, four backticks, a fence pair on one line.
PlainTexts == {<<>>, <<"x">>}
StrayTexts == {Fence, <<"x">> \o Fence, Fence \o <<BQ>>, Fence \o <<"x">> \o Fence}
BlockTexts == {Block(pre, body, post) : pre \in Pres, body \in Bodies, post \in Posts}

Event(text) == [hasContent |-> TRUE, content |-> text]
\* An event without a content attribute
BareEvent == [hasContent |-> FALSE, content |-> <<>>]

Events == {BareEvent} \cup {Event(t) : t \in PlainTexts \cup StrayTexts \cup BlockTexts}

RECURSIVE HistoriesUpTo(_)
HistoriesUpTo(n) ==
    IF n = 0 THEN {<<>>}
    ELSE LET shorter == HistoriesUpTo(n - 1)
         IN  shorter \cup {Append(h, e) : h \in shorter, e \in Events}

ExtractInit ==
    /\ history \in HistoriesUpTo(MaxHistory)
    /\ extracted = [outcome |-> "none"]

ExtractCode ==
    /\ extracted.outcome = "none"
    /\ extracted' = extract_code_from_state(history)
    /\ UNCHANGED history
    /\ UNCHANGED <<configVars, clientVars, scopeVars, taskVars, cliVars, mainVars>>

InitExtract == ConfigIdle /\ ClientIdle /\ ExtractInit /\ OutsideIdle

NextExtract == ExtractCode

SpecExtract == InitExtract /\ [][NextExtract]_vars

(***************************************************************************)
(* Properties of the resolver (SpecConfig)                                 *)
(***************************************************************************)

Called == cfgCall.outcome # "none"
Returned(profile) == cfgCall.outcome = "return" /\ cfgCall.value = profile

\* The part of C1 about a key of the mapping: the call returns the profile
\* stored under that key, and its model and base_url are not empty.
PresentKeyResolved ==
    cfgCall.provider \in DOMAIN llm_config =>
        /\ Returned(llm_config[cfgCall.provider])
        /\ cfgCall.value.model # ""
        /\ cfgCall.value.base_url # ""

\* C1 as stated: a key of the mapping resolves to the profile stored under
\* it, with non-empty model and base_url, and an omitted key (None) returns
\* the profile of the default provider.
C1_AsStated ==
    Called =>
        /\ PresentKeyResolved
        /\ cfgCall.provider = None =>
              /\ DEFAULT_PROVIDER(env) \in DOMAIN llm_config
              /\ Returned(llm_config[DEFAULT_PROVIDER(env)])

\* C1, amended: a key of the mapping resolves to the profile stored under
\* it, with non-empty model and base_url; an omitted key (None) returns the
\* profile of the default provider when the default provider (LLM_PROVIDER,
\* else deepseek_local) is a key of the mapping, and raises the lookup error
\* when it is not.
C1_ResolvesKeyOrDefault ==
    Called =>
        /\ PresentKeyResolved
        /\ cfgCall.provider = None =>
              IF DEFAULT_PROVIDER(env) \in DOMAIN llm_config
              THEN Returned(llm_config[DEFAULT_PROVIDER(env)])
              ELSE cfgCall.outcome = "raise" /\ cfgCall.exc = "ValueError"

\* The key is omitted, LLM_PROVIDER names anthropic, and its profile came back.
C1_Witness ==
    /\ cfgCall.provider = None
    /\ env["LLM_PROVIDER"] = "anthropic"
    /\ cfgCall.outcome = "return"
    /\ cfgCall.value.model = "claude-sonnet-4-20250514"

\* C2 as stated: for every key string that is not a key of the mapping the
\* call raises ValueError, the message lists every key of the mapping, and
\* the mapping is as it was.
C2_AsStated ==
    (Called /\ cfgCall.provider # None /\ cfgCall.provider \notin DOMAIN llm_config) =>
        /\ cfgCall.outcome = "raise"
        /\ cfgCall.exc = "ValueError"
        /\ Range(cfgCall.available) = DOMAIN llm_config
        /\ llm_config = LLM_CONFIG(env)

(***************************************************************************)
(* Properties of the file operations (SpecFiles)                           *)
(***************************************************************************)

\* The file a filepath argument names: the path taken from the workspace root
\* (an absolute path as it stands), as the file system resolves it.
Location(p) == ResolvePath(IF IsAbsolute(p) THEN p ELSE workspace_dir \o p)

\* The last write of the log whose path satisfies Same, 0 if there is none.
LastWrite(log, Same(_)) ==
    LET hits == {i \in DOMAIN log : Same(log[i].path)}
    IN  IF hits = {} THEN 0 ELSE SetMax(hits)

ReadBack ==
    /\ done.op = "read_file"
    /\ done.status = "returned"
    /\ done.obs.variant = "FileReadObservation"

\* C3 as stated: read_file(p) on a relative path p gives the content of the
\* most recent write_file(p, c), whatever was written to other relative
\* paths since.
C3_AsStated ==
    LET SamePath(q) == q = done.arg
        last == LastWrite(writeLog, SamePath)
    IN  (/\ ReadBack
         /\ ~IsAbsolute(done.arg)
         /\ last # 0
         /\ \A i \in DOMAIN writeLog : i > last => ~IsAbsolute(writeLog[i].path))
        => done.result = writeLog[last].content

\* C3, amended: read_file(p) gives the content of the most recent write_file
\* to the same file as p; writes since then to paths that resolve to another
\* file do not change it, a write to another spelling of the same file
\* (./p for p) does.
C3_ReadsLastWriteToSameFile ==
    LET SameFile(q) == Location(q) = Location(done.arg)
        last == LastWrite(writeLog, SameFile)
    IN  (ReadBack /\ last # 0) => done.result = writeLog[last].content

\* a was written, then ./a with another content, and a read of a gave the latter.
C3_Witness ==
    /\ ReadBack
    /\ done.arg = <<"a">>
    /\ Len(writeLog) = 2
    /\ writeLog[1].path = <<"a">>
    /\ writeLog[2].path = <<".", "a">>
    /\ writeLog[1].content # writeLog[2].content
    /\ done.result = writeLog[2].content

FileCalls == {c \in inflight \cup {done} : c.op \in {"read_file", "write_file"}}

\* C10 as stated: the path of every submitted file action lies inside the
\* workspace directory, and the parent directory of a submitted write exists.
C10_AsStated ==
    \A c \in FileCalls :
        c.nsub >= 1 =>
            /\ IsPrefix(workspace_dir, ResolvePath(c.action.path))
            /\ c.op = "write_file" => ResolvePath(Parent(c.action.path)) \in hostDirs

(***************************************************************************)
(* Properties of start, stop and the calls (Spec)                          *)
(***************************************************************************)

FacadeOps == {"run_command", "read_file", "write_file", "browse_url"}

\* C4 as stated: when a sequence of start and stop calls ends with stop,
\* every runtime handle a start created has been closed.
C4_AsStated ==
    (done.op = "stop" /\ done.status = "returned" /\ ncalls = 0) =>
        \A h \in 1..nHandles : closes[h] >= 1

\* C5: stop on a client that was never started does not raise, closes no
\* runtime and leaves self.runtime None.
C5_StopBeforeStartIsNoOp ==
    (done.op = "stop" /\ done.handle = NoHandle) =>
        /\ done.status = "returned"
        /\ runtime = NoHandle
        /\ \A h \in DOMAIN closes : closes[h] = 0

\* The synchronous wrapper's stop has returned on a client never started.
C5_Witness ==
    /\ mode = "sync"
    /\ done.op = "stop"
    /\ done.handle = NoHandle
    /\ done.status = "returned"
    /\ nHandles = 0

\* C6: on the synchronous wrapper run_command before start raises; it
\* returns no output and submits no action, and while no runtime was ever
\* created none is submitted at all.
C6_RunCommandBeforeStartRaises ==
    /\ (mode = "sync" /\ done.op = "run_command" /\ done.handle = NoHandle) =>
          /\ done.status = "raised"
          /\ done.exc = "AttributeError"
          /\ done.result = None
          /\ done.nsub = 0
    /\ nHandles = 0 => (nsubmitted = 0 /\ inflight = {})

\* run_command was called on the wrapper with no runtime, and has raised.
C6_Witness ==
    /\ mode = "sync"
    /\ nHandles = 0
    /\ done.op = "run_command"
    /\ done.status = "raised"

\* C7: a call in flight has submitted its action once; a call that finished
\* with a runtime submitted once, whether it returned or the runtime raised
\* (then it raised too); what a call returns is what its operation makes of
\* the observation given for its own action; and there are never more
\* submissions than calls.
C7_OneActionNoRetry ==
    /\ \A c \in inflight : c.nsub = 1 /\ c.handle # NoHandle
    /\ done.op \in FacadeOps =>
          /\ done.nsub = IF done.handle = NoHandle THEN 0 ELSE 1
          /\ done.status = "returned" =>
                /\ done.obs.cause = done.action.id
                /\ done.action.id = done.id
                /\ done.result = Unwrap(done.op, done.obs)
          /\ done.status = "raised" => done.obs = NoObs
    /\ nsubmitted <= ncalls

\* Two calls ran concurrently on one client: the later one has returned with
\* the observation of its own action while the earlier one is still in flight.
C7_Witness ==
    /\ mode = "async"
    /\ done.op \in FacadeOps
    /\ done.status = "returned"
    /\ done.obs.cause = done.id
    /\ \E c \in inflight : c.id < done.id

\* C8: the synchronous wrapper has one event loop, at most one facade
\* operation is in flight on it, and that is the call made last: every
\* earlier call has returned or raised.
C8_SyncCallsAreSequential ==
    mode = "sync" =>
        /\ loops = 1
        /\ Cardinality(inflight) <= 1
        /\ \A c \in inflight : c.id = ncalls

\* On the wrapper the first call has finished and the second is in flight.
C8_Witness ==
    /\ mode = "sync"
    /\ done.op \in FacadeOps
    /\ done.id = 1
    /\ \E c \in inflight : c.id = 2

(***************************************************************************)
(* Properties of the code extraction (SpecExtract)                         *)
(***************************************************************************)

\* A text holds a fenced block when it holds two fence delimiters that do
\* not overlap.
HasBlock(t) == \E i, j \in FencePositions(t) : j >= i + FenceLen

\* The history holds exactly one fenced block, of the form fence, "python",
\* NL, X, NL, fence: one event holds it and two fence delimiters in all, and
\* no other event holds a block.
OneBlock(hist, X) ==
    \E k \in DOMAIN hist :
        /\ hist[k].hasContent
        /\ \E pre \in Pres, post \in Posts : hist[k].content = Block(pre, X, post)
        /\ Cardinality(FencePositions(hist[k].content)) = 2
        /\ \A m \in DOMAIN hist \ {k} : hist[m].hasContent => ~HasBlock(hist[m].content)

NoBlock(hist) == \A k \in DOMAIN hist : hist[k].hasContent => ~HasBlock(hist[k].content)

\* C9 as stated: with exactly one fenced block in the history the result is
\* its body X exactly; with no fenced block in any event the result is the
\* empty string.
C9_AsStated ==
    extracted.outcome # "none" =>
        /\ \A X \in Bodies :
              OneBlock(history, X) => extracted = [outcome |-> "return", value |-> X]
        /\ NoBlock(history) => extracted = [outcome |-> "return", value |-> <<>>]

(***************************************************************************)
(* Properties of what the operations return (Spec)                         *)
(***************************************************************************)

ReturnedFrom(op) == done.op = op /\ done.status = "returned"

\* C11: browse_url returns exactly url, content and screenshot of a
\* browser-output observation; for any other observation it returns only
\* content, the string form of the observation.
C11_BrowseUrlResult ==
    ReturnedFrom("browse_url") =>
        IF done.obs.variant = "BrowserOutputObservation"
        THEN /\ DOMAIN done.result = {"url", "content", "screenshot"}
             /\ done.result.url = done.obs.url
             /\ done.result.content = done.obs.content
             /\ done.result.screenshot = done.obs.screenshot
        ELSE /\ DOMAIN done.result = {"content"}
             /\ done.result.content = StrOf(done.obs)

\* browse_url has returned for an observation that is no browser output.
C11_Witness ==
    /\ ReturnedFrom("browse_url")
    /\ done.obs.variant = "ErrorObservation"
    /\ done.result.content = "**ErrorObservation**"

\* C12: run_command returns the content of a command-output observation and
\* the string form of any other; read_file does so for the file-read
\* observation; write_file returns True exactly for the file-write
\* observation.
C12_UnwrapByVariant ==
    /\ ReturnedFrom("run_command") =>
          done.result = IF done.obs.variant = "CmdOutputObservation"
                        THEN done.obs.content ELSE StrOf(done.obs)
    /\ ReturnedFrom("read_file") =>
          done.result = IF done.obs.variant = "FileReadObservation"
                        THEN done.obs.content ELSE StrOf(done.obs)
    /\ ReturnedFrom("write_file") =>
          (done.result <=> done.obs.variant = "FileWriteObservation")

\* write_file has returned False for an observation that is no file write.
C12_Witness ==
    /\ ReturnedFrom("write_file")
    /\ done.obs.variant = "ErrorObservation"
    /\ done.result = FALSE

\* C20 as stated: no action is submitted to a runtime handle that was closed,
\* and close is invoked at most once on each handle.
C20_AsStated ==
    /\ \A c \in inflight : ~c.toClosed
    /\ done.op \in FacadeOps => ~done.toClosed
    /\ \A h \in DOMAIN closes : closes[h] <= 1

(***************************************************************************)
(* The extraction, step by step (SpecExtract)                              *)
(***************************************************************************)

\* The events of hist that hold at least two fence delimiters.
Fenced(hist) ==
    {k \in DOMAIN hist :
        hist[k].hasContent /\ Cardinality(FencePositions(hist[k].content)) >= 2}

\* What C16 describes for a text: the text from its first to its last fence
\* delimiter, without the opening fence line and without a closing line that
\* is the fence.
FromFirstToLastFence(t) ==
    LET ps == FencePositions(t)
        lines == split(SubSeq(t, SetMin(ps) + 1, SetMax(ps) + FenceLen))
        rest == Tail(lines)
    IN  IF rest # <<>> /\ rest[Len(rest)] = Fence
        THEN join(SubSeq(rest, 1, Len(rest) - 1))
        ELSE join(rest)

\* C16 as stated: the result is that of the last event of the history that
\* holds at least two fence delimiters, events without content or with fewer
\* delimiters being skipped: its text from the first to the last delimiter
\* without the fence lines; with no such event it is the empty string.
C16_AsStated ==
    extracted.outcome # "none" =>
        extracted = [outcome |-> "return",
                     value |-> IF Fenced(history) = {} THEN <<>>
                               ELSE FromFirstToLastFence(
                                        history[SetMax(Fenced(history))].content)]

(***************************************************************************)
(* OpenHandsSync as a context manager:                                     *)
(*     with create_client(...) as client: <body>                           *)
(***************************************************************************)

\* __enter__ with a fault: an exception of start is swallowed and the body runs.
Sync_enter_swallow(status) == "body"

\* Where the with statement goes after __enter__: start() returned and
\* __enter__ returns self to the body, or start() raised and the exception
\* leaves the statement.
Sync_enter(status) == IF status = "returned" THEN "body" ELSE "failed"

\* __exit__ returns None: an exception of the body is not suppressed.
Sync_exit(bodyExc) == bodyExc

BodyExceptions == {None, "BodyError"}

\* The statement is entered: __enter__ calls self.start().
Enter ==
    /\ scope.pc = "outside"
    /\ StartStep
    /\ scope' = [pc |-> Sync_enter(done'.status), exc |-> done'.exc]

\* The body is left, normally or by an exception: __exit__ calls self.stop().
Exit ==
    /\ scope.pc = "body"
    /\ \E bodyExc \in BodyExceptions :
          /\ StopStep
          /\ scope' = [pc |-> "left", exc |-> Sync_exit(bodyExc)]

\* What the body does with the client.
BodyRunCommand == scope.pc = "body" /\ RunCommand
BodyWriteFile == scope.pc = "body" /\ WriteFileA
BodyReadFile == scope.pc = "body" /\ ReadFileA
BodyStop == scope.pc = "body" /\ Stop

InitWith ==
    /\ ConfigIdle
    /\ ClientInit
    /\ mode = "sync"
    /\ ExtractIdle
    /\ scope = [pc |-> "outside", exc |-> None]
    /\ TaskIdle /\ CliIdle /\ MainIdle

NextWith ==
    \/ Enter
    \/ BodyRunCommand
    \/ BodyWriteFile
    \/ BodyReadFile
    \/ BodyStop
    \/ RuntimeAnswers
    \/ RuntimeRaises
    \/ Exit

SpecWith == InitWith /\ [][NextWith]_vars

\* C15: in a with statement the runtime is started before the body runs;
\* when the body is left, normally or by an exception, stop is called (it
\* closes the runtime and the body's exception goes on); when start raises on
\* entry the body does not run (no call is made) and stop is not called
\* (nothing is closed).
C15_WithStartsAndStops ==
    /\ [](scope.pc = "body" =>
            /\ runtime # NoHandle
            /\ nHandles = 1)
    /\ [](scope.pc = "failed" =>
            /\ done = LifecycleDone("start", NoHandle, "raised", "RuntimeError")
            /\ scope.exc = "RuntimeError"
            /\ runtime = NoHandle
            /\ ncalls = 0
            /\ \A h \in DOMAIN closes : closes[h] = 0)
    /\ [][ncalls' # ncalls => scope.pc = "body"]_vars
    /\ [][scope' # scope =>
            \/ scope.pc = "outside" /\ scope'.pc \in {"body", "failed"}
                 /\ done'.op = "start"
            \/ scope.pc = "body" /\ scope'.pc = "left"
                 /\ done' = LifecycleDone("stop", runtime, "returned", None)
                 /\ closes'[runtime] = closes[runtime] + 1]_vars
    /\ [](scope.pc = "left" => done.op = "stop" /\ closes[runtime] >= 1)

\* The body raised and the statement was left: stop has closed the runtime.
C15_Witness ==
    /\ scope = [pc |-> "left", exc |-> "BodyError"]
    /\ done.op = "stop"
    /\ closes[1] = 1
    /\ ncalls >= 1

(***************************************************************************)
(* OpenHandsClient.code_task: ask, extract, write when a filename is given *)
(***************************************************************************)

\* The iteration ceiling code_task hands to ask.
code_task_max_iterations == 5

\* filename: not given (None), given as the empty string, given as a name.
Filenames ==
    {[given |-> FALSE, path |-> <<>>],
     [given |-> TRUE, path |-> <<>>],
     [given |-> TRUE, path |-> <<"a">>]}

\* "if filename:" is false for None and for the empty string.
FilenameTruthy(filename) == filename.given /\ filename.path # <<>>

TaskCalled(filename) ==
    [pc |-> "called", filename |-> filename, asks |-> <<>>,
     status |-> "running", exc |-> None, code |-> <<>>, result |-> <<>>]

\* The client is started before code_task is called on it.
TaskStart == task.pc = "called" /\ runtime = NoHandle /\ Start

\* state = await self.ask(prompt, max_iterations=5): run_controller hands back a
\* final state with some history, or raises.
CodeTaskAsk ==
    /\ task.pc = "called"
    /\ runtime # NoHandle
    /\ \/ \E h \in HistoriesUpTo(MaxHistory) :
             /\ history' = h
             /\ task' = [task EXCEPT !.pc = "asked",
                                     !.asks = Append(@, code_task_max_iterations)]
       \/ /\ history' = history
          /\ task' = [task EXCEPT !.pc = "done", !.status = "raised",
                                  !.exc = "AgentError",
                                  !.asks = Append(@, code_task_max_iterations)]
    /\ UNCHANGED <<extracted, configVars, clientVars, scopeVars, cliVars, mainVars>>

\* code = self._extract_code_from_state(state); its exception ends code_task.
CodeTaskExtract ==
    /\ task.pc = "asked"
    /\ extracted' = extract_code_from_state(history)
    /\ task' = IF extracted'.outcome = "raise"
               THEN [task EXCEPT !.pc = "done", !.status = "raised",
                                 !.exc = extracted'.exc]
               ELSE [task EXCEPT !.pc = "extracted", !.code = extracted'.value]
    /\ UNCHANGED <<history, configVars, clientVars, scopeVars, cliVars, mainVars>>

\* if filename: await self.write_file(filename, code)
CodeTaskWrite ==
    /\ task.pc = "extracted"
    /\ FilenameTruthy(task.filename)
    /\ ncalls = 0
    /\ WriteFileOf({task.filename.path}, {task.code}, 1)

\* return code; an exception of write_file goes on to the caller.
CodeTaskReturn ==
    /\ task.pc = "extracted"
    /\ FilenameTruthy(task.filename) => ncalls = 1 /\ inflight = {}
    /\ task' = IF FilenameTruthy(task.filename) /\ done.status = "raised"
               THEN [task EXCEPT !.pc = "done", !.status = "raised", !.exc = done.exc]
               ELSE [task EXCEPT !.pc = "done", !.status = "returned",
                                 !.result = task.code]
    /\ UNCHANGED <<configVars, clientVars, extractVars, scopeVars, cliVars, mainVars>>

\* A client that is started and on which code_task is then called.
InitTask ==
    /\ ConfigIdle
    /\ ClientInit
    /\ mode = "sync"
    /\ ExtractIdle
    /\ ScopeIdle /\ CliIdle /\ MainIdle
    /\ \E filename \in Filenames : task = TaskCalled(filename)

NextTask ==
    \/ TaskStart
    \/ CodeTaskAsk
    \/ CodeTaskExtract
    \/ CodeTaskWrite
    \/ RuntimeAnswers
    \/ RuntimeRaises
    \/ CodeTaskReturn

SpecTask == InitTask /\ [][NextTask]_vars

\* C17 as stated: once code_task has ended on a started client, with ask
\* and the runtime not raising, ask ran exactly once with the ceiling 5, a
\* given (non-empty) filename made exactly one write_file of that filename
\* with the extracted code, no filename made no file action, and the
\* extracted code was returned.
C17_AsStated ==
    (/\ task.pc = "done"
     /\ runtime # NoHandle
     /\ task.exc \notin {"AgentError", "RuntimeError"})
    => /\ task.asks = <<5>>
       /\ task.status = "returned"
       /\ extracted.outcome = "return"
       /\ task.result = extracted.value
       /\ IF task.filename.given /\ task.filename.path # <<>>
          THEN /\ nsubmitted = 1
               /\ done.op = "write_file"
               /\ done.action = FileWriteAction(1, PathJoin(workspace_dir, task.filename.path),
                                                extracted.value)
          ELSE /\ nsubmitted = 0
               /\ ncalls = 0

(***************************************************************************)
(* deepseek_cli.py: the file operations and interactive_mode               *)
(*                                                                         *)
(* A line is the sequence of its characters, as the texts above.           *)
(***************************************************************************)

MaxRequests == 3
MaxChat == 4

SP == " "

\* The commands of interactive_mode, as typed.
Cmd ==
    [quit    |-> <<"/", "q", "u", "i", "t">>,
     exit    |-> <<"/", "e", "x", "i", "t">>,
     q       |-> <<"/", "q">>,
     code    |-> <<"/", "c", "o", "d", "e">>,
     review  |-> <<"/", "r", "e", "v", "i", "e", "w">>,
     explain |-> <<"/", "e", "x", "p", "l", "a", "i", "n">>,
     fix     |-> <<"/", "f", "i", "x">>,
     clear   |-> <<"/", "c", "l", "e", "a", "r">>,
     help    |-> <<"/", "h", "e", "l", "p">>]

\* str.lower, on the capitals the lines below use.
lower(s) ==
    [i \in 1..Len(s) |->
        CASE s[i] = "Q" -> "q" [] s[i] = "F" -> "f" [] OTHER -> s[i]]

\* str.strip: without leading and trailing blanks.
strip(s) ==
    LET inked == {i \in 1..Len(s) : s[i] # SP}
    IN  IF inked = {} THEN <<>> ELSE SubSeq(s, SetMin(inked), SetMax(inked))

\* str.split(maxsplit=1) of a stripped, non-empty line: the first word and,
\* when there is one, what follows the blanks after it.
split_maxsplit(s) ==
    LET blanks == {i \in 1..Len(s) : s[i] = SP}
    IN  IF blanks = {} THEN <<s>>
        ELSE LET i == SetMin(blanks)
                 j == SetMin({k \in i..Len(s) : s[k] # SP})
             IN  <<SubSeq(s, 1, i - 1), SubSeq(s, j, Len(s))>>

\* open(filepath, 'r') on the host: f is a readable file, p a file that may
\* not be read, and nothing else exists.
open(filepath) ==
    CASE filepath = <<"f">> -> "ok"
      [] filepath = <<"p">> -> "PermissionError"
      [] OTHER -> "FileNotFoundError"

\* What streaming gives when the model answers.
Response == <<"r">>

CliCall(fn, arg, status, exc, result, msg) ==
    [fn |-> fn, arg |-> arg, status |-> status, exc |-> exc,
     result |-> result, printed |-> msg]

\* The file operations with a fault: no except clause around open.
read_then_stream_uncaught(fn, filepath) ==
    IF open(filepath) = "ok"
    THEN CliCall(fn, filepath, "running", None, <<>>, None)
    ELSE CliCall(fn, filepath, "raised", open(filepath), <<>>, None)

\* review_file, explain_file and fix_file up to their stream_response call:
\* the file is read; FileNotFoundError is caught, a message is printed and ""
\* is returned; any other error of open goes on to the caller.
read_then_stream(fn, filepath) ==
    CASE open(filepath) = "ok" ->
            CliCall(fn, filepath, "running", None, <<>>, None)
      [] open(filepath) = "FileNotFoundError" ->
            CliCall(fn, filepath, "returned", None, <<>>, "File not found")
      [] OTHER ->
            CliCall(fn, filepath, "raised", open(filepath), <<>>, None)

review_file(filepath) == read_then_stream("review_file", filepath)
explain_file(filepath) == read_then_stream("explain_file", filepath)
fix_file(filepath) == read_then_stream("fix_file", filepath)
generate_code(t) == CliCall("generate_code", t, "running", None, <<>>, None)

\* The loop with a fault: KeyboardInterrupt is not caught and ends it.
loop_except_unhandled(st, exc) ==
    IF exc = "KeyboardInterrupt"
    THEN [st EXCEPT !.pc = "ended"]
    ELSE [st EXCEPT !.pc = "prompt", !.printed = "Error"]

\* The except clauses of the loop: a message is printed and the loop goes on.
loop_except(st, exc) ==
    IF exc = "KeyboardInterrupt"
    THEN [st EXCEPT !.pc = "prompt", !.printed = "Use /quit to exit"]
    ELSE [st EXCEPT !.pc = "prompt", !.printed = "Error"]

\* The loop after a command called one of the functions above.
after_call(st, call) ==
    CASE call.status = "running" ->
            [st EXCEPT !.pc = "streaming_call", !.requests = @ + 1, !.call = call]
      [] call.status = "returned" ->
            [st EXCEPT !.printed = call.printed, !.call = call]
      [] OTHER ->
            [loop_except(st, call.exc) EXCEPT !.call = call]

\* One pass of the loop for the line read, up to the next prompt, the end of
\* the loop or the start of a stream.
interactive_input(line, st) ==
    LET user_input == strip(line)
    IN  IF user_input = <<>> THEN st
        ELSE IF startswith(user_input, <<"/">>)
        THEN LET parts == split_maxsplit(user_input)
                 cmd == lower(parts[1])
                 arg == IF Len(parts) > 1 THEN parts[2] ELSE <<>>
                 usage == [st EXCEPT !.printed = "Usage"]
             IN  CASE cmd \in {Cmd.quit, Cmd.exit, Cmd.q} ->
                        [st EXCEPT !.pc = "ended", !.printed = "Goodbye!"]
                   [] cmd = Cmd.code ->
                        IF arg # <<>> THEN after_call(st, generate_code(arg)) ELSE usage
                   [] cmd = Cmd.review ->
                        IF arg # <<>> THEN after_call(st, review_file(arg)) ELSE usage
                   [] cmd = Cmd.explain ->
                        IF arg # <<>> THEN after_call(st, explain_file(arg)) ELSE usage
                   [] cmd = Cmd.fix ->
                        IF arg # <<>> THEN after_call(st, fix_file(arg)) ELSE usage
                   [] cmd = Cmd.clear ->
                        [st EXCEPT !.history = <<>>, !.printed = "History cleared"]
                   [] cmd = Cmd.help ->
                        [st EXCEPT !.printed = "Available commands"]
                   [] OTHER ->
                        [st EXCEPT !.printed = "Unknown command"]
        ELSE [st EXCEPT !.history = Append(@, [role |-> "user", content |-> user_input]),
                        !.pc = "streaming_chat", !.requests = @ + 1]

\* The lines a user types.
Lines ==
    {<<>>, <<SP>>, <<"h", "i">>,
     Cmd.quit, Cmd.exit, Cmd.q, <<"/", "Q">>, <<SP>> \o Cmd.q \o <<SP>>,
     Cmd.quit \o <<SP, "x">>,
     Cmd.clear, Cmd.help, <<"/", "x">>,
     Cmd.code, Cmd.code \o <<SP, "t">>,
     Cmd.review, Cmd.review \o <<SP, "f">>, Cmd.review \o <<SP, SP, "g">>,
     Cmd.review \o <<SP, "p">>,
     Cmd.explain \o <<SP, "f">>, Cmd.explain \o <<SP, "g">>,
     Cmd.fix \o <<SP, "f">>, <<"/", "F", "i", "x", SP, "g">>}

CliState ==
    [pc |-> cliPc, history |-> chatHistory, printed |-> printed,
     requests |-> requests, call |-> cliCall]

CliBecomes(st) ==
    /\ cliPc' = st.pc
    /\ chatHistory' = st.history
    /\ printed' = st.printed
    /\ requests' = st.requests
    /\ cliCall' = st.call
    /\ UNCHANGED <<configVars, clientVars, extractVars, scopeVars, taskVars, mainVars>>

\* console.input returns a line.
ReadLine ==
    /\ cliPc = "prompt"
    /\ \E line \in Lines :
          LET st == interactive_input(line, CliState)
          IN  /\ st.requests <= MaxRequests
              /\ Len(st.history) > Len(chatHistory) => Len(st.history) < MaxChat
              /\ CliBecomes(st)
              /\ turn' = IF st.call # cliCall /\ st.call.status = "raised"
                         THEN [event |-> "Exception", at |-> "open", line |-> line]
                         ELSE [event |-> "line", at |-> "input", line |-> line]

\* console.input raises: Ctrl-C, or the end of the input (EOFError).
InputRaises ==
    /\ cliPc = "prompt"
    /\ \E exc \in {"KeyboardInterrupt", "EOFError"} :
          /\ CliBecomes(loop_except(CliState, exc))
          /\ turn' = [event |-> IF exc = "KeyboardInterrupt" THEN exc ELSE "Exception",
                      at |-> "input", line |-> <<>>]

\* The stream of ollama.chat comes to its end and the response is kept.
StreamEnds ==
    /\ cliPc \in {"streaming_chat", "streaming_call"}
    /\ CliBecomes(
          IF cliPc = "streaming_chat"
          THEN [CliState EXCEPT
                  !.pc = "prompt", !.printed = "response",
                  !.history = Append(@, [role |-> "assistant", content |-> Response])]
          ELSE [CliState EXCEPT
                  !.pc = "prompt", !.printed = "response",
                  !.call = [@ EXCEPT !.status = "returned", !.result = Response]])
    /\ turn' = [turn EXCEPT !.event = "done", !.at = "stream"]

\* ollama.chat raises, or Ctrl-C arrives while the response is streamed.
StreamRaises ==
    /\ cliPc \in {"streaming_chat", "streaming_call"}
    /\ \E exc \in {"KeyboardInterrupt", "ConnectionError"} :
          /\ CliBecomes(
                IF cliPc = "streaming_chat"
                THEN loop_except(CliState, exc)
                ELSE [loop_except(CliState, exc) EXCEPT
                        !.call = [@ EXCEPT !.status = "raised", !.exc = exc]])
          /\ turn' = [turn EXCEPT
                        !.event = IF exc = "KeyboardInterrupt" THEN exc ELSE "Exception",
                        !.at = "stream"]

\* interactive_mode has printed its banner and made its empty history.
InitChat ==
    /\ ConfigIdle /\ ClientIdle /\ ExtractIdle
    /\ ScopeIdle /\ TaskIdle /\ MainIdle
    /\ cliPc = "prompt"
    /\ chatHistory = <<>>
    /\ printed = "DeepSeek Interactive Mode"
    /\ requests = 0
    /\ cliCall = [fn |-> "none"]
    /\ turn = [event |-> "none", at |-> "none", line |-> <<>>]

NextChat ==
    \/ ReadLine
    \/ InputRaises
    \/ StreamEnds
    \/ StreamRaises

SpecChat == InitChat /\ [][NextChat]_vars

\* The lines that name a file that does not exist.
MissingFile == <<"g">>
CliFileOps == {"review_file", "explain_file", "fix_file"}

\* C13: when review_file, explain_file or fix_file is given a file that does
\* not exist, the call returns the empty string and prints "File not found";
\* the error does not reach the loop, and no request is sent to the model.
C13_MissingFileReturnsEmpty ==
    /\ [](cliCall.fn \in CliFileOps /\ cliCall.arg = MissingFile =>
            /\ cliCall.status = "returned"
            /\ cliCall.exc = None
            /\ cliCall.result = <<>>
            /\ cliCall.printed = "File not found")
    /\ [][(cliCall' # cliCall /\ cliCall'.fn \in CliFileOps /\ cliCall'.arg = MissingFile) =>
            /\ requests' = requests
            /\ cliPc' = "prompt"
            /\ printed' = "File not found"
            /\ turn'.event = "line"]_vars

\* fix_file was called for a missing file after a request had been sent.
C13_Witness ==
    /\ cliCall.fn = "fix_file"
    /\ cliCall.arg = MissingFile
    /\ cliCall.result = <<>>
    /\ printed = "File not found"
    /\ requests = 1

\* The lines of Lines whose command is /quit, /exit or /q.
QuitLines ==
    {Cmd.quit, Cmd.exit, Cmd.q, <<"/", "Q">>, <<SP, "/", "q", SP>>,
     <<"/", "q", "u", "i", "t", SP, "x">>}

\* C14: a keyboard interruption, at the input or during a stream, is answered
\* with "Use /quit to exit" and the loop goes on; every other exception in the
\* loop is printed and the loop goes on; the loop ends only on a line whose
\* command is /quit, /exit or /q (in any case of letters).
C14_OnlyQuitEndsTheLoop ==
    /\ turn.event = "KeyboardInterrupt" =>
          /\ turn.at \in {"input", "stream"}
          /\ cliPc = "prompt"
          /\ printed = "Use /quit to exit"
    /\ turn.event = "Exception" =>
          /\ cliPc = "prompt"
          /\ printed = "Error"
    /\ cliPc = "ended" =>
          /\ turn.event = "line"
          /\ turn.line \in QuitLines
          /\ printed = "Goodbye!"

\* Ctrl-C arrived while a chat response was streamed, after an earlier
\* exchange: the loop is at its prompt again.
C14_Witness ==
    /\ turn.event = "KeyboardInterrupt"
    /\ turn.at = "stream"
    /\ cliPc = "prompt"
    /\ Len(chatHistory) = 3

Alternating(h) ==
    /\ Len(h) % 2 = 0
    /\ \A i \in 1..Len(h) :
          h[i].role = IF i % 2 = 1 THEN "user" ELSE "assistant"

SlashLines == {l \in Lines : strip(l) # <<>> /\ strip(l)[1] = "/"}
ClearLines == {Cmd.clear}

\* C19 as stated: at every prompt the history is empty or alternates
\* user, assistant, ..., ending with an assistant message, also after a turn
\* whose request raised or was interrupted; a slash command leaves the
\* history as it is, except /clear, which empties it.
C19_AsStated ==
    /\ [](cliPc = "prompt" => Alternating(chatHistory))
    /\ [][(cliPc = "prompt" /\ turn'.at # "none" /\ turn'.line \in SlashLines /\ turn' # turn) =>
            chatHistory' = IF turn'.line \in ClearLines THEN <<>> ELSE chatHistory]_vars

(***************************************************************************)
(* deepseek_cli.py: main                                                   *)
(***************************************************************************)

\* What argparse gives for an option with a value: None when the option is
\* absent, else the string given, which may be empty.
ArgValues == {None, "", "v"}

CliArgs ==
    [list : BOOLEAN, interactive : BOOLEAN,
     code : ArgValues, review : ArgValues, explain : ArgValues, fix : ArgValues,
     error : {None, "e"}, prompt : ArgValues, no_stream : BOOLEAN]

MainCall(fn, arg) == [fn |-> fn, arg |-> arg]

\* main with a fault: --review is looked at before --code.
main_review_first(a) ==
    IF a.list THEN <<[fn |-> "list_models"]>>
    ELSE IF a.interactive THEN <<[fn |-> "interactive_mode"]>>
    ELSE IF ~Falsy(a.review) THEN <<MainCall("review_file", a.review)>>
    ELSE IF ~Falsy(a.code) THEN <<MainCall("generate_code", a.code)>>
    ELSE IF ~Falsy(a.explain) THEN <<MainCall("explain_file", a.explain)>>
    ELSE IF ~Falsy(a.fix) THEN <<[fn |-> "fix_file", arg |-> a.fix, error |-> a.error]>>
    ELSE IF ~Falsy(a.prompt)
         THEN <<MainCall(IF a.no_stream THEN "chat" ELSE "stream_response", a.prompt)>>
    ELSE <<[fn |-> "print_help"]>>

\* The calls main makes for the parsed arguments a: a chain of "if args.x:"
\* tests, each ending in return.
main(a) ==
    IF a.list THEN <<[fn |-> "list_models"]>>
    ELSE IF a.interactive THEN <<[fn |-> "interactive_mode"]>>
    ELSE IF ~Falsy(a.code) THEN <<MainCall("generate_code", a.code)>>
    ELSE IF ~Falsy(a.review) THEN <<MainCall("review_file", a.review)>>
    ELSE IF ~Falsy(a.explain) THEN <<MainCall("explain_file", a.explain)>>
    ELSE IF ~Falsy(a.fix) THEN <<[fn |-> "fix_file", arg |-> a.fix, error |-> a.error]>>
    ELSE IF ~Falsy(a.prompt)
         THEN <<MainCall(IF a.no_stream THEN "chat" ELSE "stream_response", a.prompt)>>
    ELSE <<[fn |-> "print_help"]>>

Main ==
    /\ ran = <<>>
    /\ ran' = main(args)
    /\ UNCHANGED <<args, configVars, clientVars, extractVars, scopeVars, taskVars, cliVars>>

InitMain ==
    /\ ConfigIdle /\ ClientIdle /\ ExtractIdle
    /\ ScopeIdle /\ TaskIdle /\ CliIdle
    /\ args \in CliArgs
    /\ ran = <<>>

NextMain == Main

SpecMain == InitMain /\ [][NextMain]_vars

\* The options with a value, in the order of their precedence, and the
\* function each one stands for.
ValueOptions == <<"code", "review", "explain", "fix", "prompt">>
ModeOf(a, option) ==
    CASE option = "code" -> [fn |-> "generate_code", arg |-> a.code]
      [] option = "review" -> [fn |-> "review_file", arg |-> a.review]
      [] option = "explain" -> [fn |-> "explain_file", arg |-> a.explain]
      [] option = "fix" -> [fn |-> "fix_file", arg |-> a.fix, error |-> a.error]
      [] option = "prompt" -> [fn |-> IF a.no_stream THEN "chat" ELSE "stream_response",
                               arg |-> a.prompt]

\* One mode runs, chosen by the precedence, where Given(v) says which values
\* of an option count as given.
Precedence(Given(_)) ==
    ran # <<>> =>
      /\ Len(ran) = 1
      /\ args.list => ran[1] = [fn |-> "list_models"]
      /\ ~args.list /\ args.interactive => ran[1] = [fn |-> "interactive_mode"]
      /\ ~args.list /\ ~args.interactive =>
            /\ \A k \in 1..Len(ValueOptions) :
                  (/\ Given(args[ValueOptions[k]])
                   /\ \A j \in 1..(k - 1) : ~Given(args[ValueOptions[j]]))
                  => ran[1] = ModeOf(args, ValueOptions[k])
            /\ (\A k \in 1..Len(ValueOptions) : ~Given(args[ValueOptions[k]]))
                  => ran[1] = [fn |-> "print_help"]

GivenAtAll(v) == v # None
GivenNonEmpty(v) == v # None /\ v # ""

\* C18 as stated: one mode runs, chosen by the precedence --list,
\* --interactive, --code, --review, --explain, --fix, prompt, help, an option
\* counting as given whenever it is on the command line.
C18_AsStated == Precedence(GivenAtAll)

\* C18, amended: one mode runs, chosen by the precedence among the options
\* given with a non-empty value (an option given with the empty string counts
\* as absent); a lower option is ignored; --no-stream only chooses between
\* chat and stream_response for the prompt, --error is handed only to fix_file.
C18_PrecedenceAmongNonEmpty == Precedence(GivenNonEmpty)

\* --code and --review were both given: generate_code ran, and nothing else.
C18_Witness ==
    /\ args.code = "v"
    /\ args.review = "v"
    /\ args.error = "e"
    /\ args.no_stream
    /\ ran = <<[fn |-> "generate_code", arg |-> "v"]>>

(***************************************************************************)
(* OpenHandsClient.__init__                                                *)
(***************************************************************************)

\* __init__ for the argument provider, with the host directories dirs: the
\* import guard, then the workspace directory is made, then the profile is
\* resolved; an exception of the resolver ends the construction.
OpenHandsClient_init(available, dirs, cfg, e, provider) ==
    IF ~available
    THEN [hostDirs |-> dirs, cfgCall |-> NoCall,
          status |-> "raised", exc |-> "ImportError"]
    ELSE LET made == Mkdir(dirs, workspace_dir)
             r == get_llm_config(cfg, e, provider)
         IN  IF r.outcome = "raise"
             THEN [hostDirs |-> made, cfgCall |-> r, status |-> "raised", exc |-> r.exc]
             ELSE [hostDirs |-> made, cfgCall |-> r, status |-> "returned", exc |-> None]

\* OpenHandsClient(provider=...): done tells whether an instance came out of it.
Construct ==
    /\ done = NoDone
    /\ \E available \in BOOLEAN, provider \in ProviderArgs :
          LET c == OpenHandsClient_init(available, hostDirs, llm_config, env, provider)
          IN  /\ hostDirs' = c.hostDirs
              /\ cfgCall' = IF available THEN c.cfgCall
                            ELSE [provider |-> provider, outcome |-> "none"]
              /\ done' = LifecycleDone("__init__", NoHandle, c.status, c.exc)
    /\ UNCHANGED <<env, llm_config, mode, loops, runtime, nHandles, closes, inflight,
                   ncalls, nsubmitted, fs, writeLog>>
    /\ UNCHANGED <<extractVars, scopeVars, taskVars, cliVars, mainVars>>

\* Before the construction: any environment; the workspace directory exists
\* already or does not.
InitConstruct ==
    /\ ConfigInit
    /\ mode = "async"
    /\ loops = 0
    /\ runtime = NoHandle
    /\ nHandles = 0
    /\ closes = [h \in 1..MaxHandles |-> 0]
    /\ inflight = {}
    /\ done = NoDone
    /\ ncalls = 0
    /\ nsubmitted = 0
    /\ fs = <<>>
    /\ hostDirs \in {Mkdir({}, <<"/">>), Mkdir({}, workspace_dir)}
    /\ writeLog = <<>>
    /\ ExtractIdle
    /\ OutsideIdle

NextConstruct == Construct

SpecConstruct == InitConstruct /\ [][NextConstruct]_vars

\* Provider keys that are not in LLM_CONFIG.
UnknownKeys == {"gpt4", "OpenAI"}

\* C21 as stated: a construction with a provider key that is not in the
\* mapping raises the resolver's ValueError, gives no instance and no runtime
\* handle, and leaves the host as it was: the workspace directory is not
\* created.
C21_AsStated ==
    [][(done'.op = "__init__" /\ done.op = "none" /\ done'.exc # "ImportError"
          /\ cfgCall'.provider \in UnknownKeys) =>
            /\ done'.status = "raised"
            /\ done'.exc = "ValueError"
            /\ runtime' = NoHandle
            /\ nHandles' = 0
            /\ hostDirs' = hostDirs]_vars

====
